---- MODULE Spec2Model ----
(***************************************************************************)
(* FiniteDinoBot: the comment-processing pipeline of reddit_bot.py and     *)
(* finite_dino_bot.py as one sequential process plus its SIGINT handler.   *)
(*                                                                         *)
(* Strings are sequences of one-character strings, so that split, join     *)
(* and the keyword regular expression are computed.  A comment id is a     *)
(* one-character string such as <<"a">>; the empty string is <<>>.         *)
(***************************************************************************)
EXTENDS Integers, Sequences, FiniteSets, TLC

\* ------------------------------------------------------------------ bounds
\* config.CACHE_SIZE and config.RETRIEVAL_LIMIT are 500 in config.py; the
\* model runs them scaled down.
CACHE_SIZE == 2
RETRIEVAL_LIMIT == 2
\* authenticate's attempt counter saturates here (it is unbounded in the code
\* when max_attempts is -1).
AttemptCap == 3
\* SIGINTs that arrive in one run (any number can, in the code)
MaxInterrupts == 2

\* ---------------------------------------------------------------- constants
DEFAULT_MAX_ATTEMPTS == -1
MaxAttemptsArgs == {DEFAULT_MAX_ATTEMPTS, 2}

SITE_NAME == "FiniteDinoBot"
KEYWORD == <<"!", "d", "e", "f", "i", "n", "e">>
NL == "\n"

\* ------------------------------------------------------------------ strings
Range(s) == {s[i] : i \in 1..Len(s)}

LowerChar(c) ==
  CASE c = "D" -> "d" [] c = "E" -> "e" [] c = "F" -> "f" [] c = "I" -> "i"
    [] c = "N" -> "n" [] c = "W" -> "w" [] c = "X" -> "x" [] OTHER -> c

\* str.lower()
Lower(s) == [i \in 1..Len(s) |-> LowerChar(s[i])]

\* the characters \w matches, among those the modelled bodies use
WordChars ==
  {"a", "d", "e", "f", "i", "l", "n", "o", "p", "r", "s", "t", "w", "x", "y",
   "_"}
GroupChars == WordChars \cup {" "}

\* the pattern with a token boundary required before the keyword
MatchAtTokenBoundary(s, i) ==
  LET k == Len(KEYWORD) IN
    /\ i + k + 1 <= Len(s)
    /\ (i = 1 \/ s[i - 1] = " ")
    /\ SubSeq(s, i, i + k - 1) = Lower(KEYWORD)
    /\ s[i + k] = " "
    /\ s[i + k + 1] \in GroupChars

\* the pattern keyword + ' ([ \w]+)' matches at position i of s
MatchAt(s, i) ==
  LET k == Len(KEYWORD) IN
    /\ i + k + 1 <= Len(s)
    /\ SubSeq(s, i, i + k - 1) = Lower(KEYWORD)
    /\ s[i + k] = " "
    /\ s[i + k + 1] \in GroupChars

\* the end of a group that stops at the first space after a word
RunEndAtWord(s, j) ==
  CHOOSE e \in j..Len(s) :
    /\ \A x \in j..(e - 1) : s[x + 1] \in WordChars
    /\ (e = Len(s) \/ s[e + 1] \notin WordChars)

\* the end of the greedy run [ \w]+ that starts at position j of s
RunEnd(s, j) ==
  CHOOSE e \in j..Len(s) :
    /\ \A x \in j..e : s[x] \in GroupChars
    /\ (e = Len(s) \/ s[e + 1] \notin GroupChars)

\* a search that takes the whole text as the request when nothing matches
KeywordSearchOrWholeText(s) ==
  IF \E i \in 1..Len(s) : MatchAt(s, i)
    THEN LET i == CHOOSE x \in 1..Len(s) :
                    MatchAt(s, x) /\ \A y \in 1..(x - 1) : ~MatchAt(s, y)
             j == i + Len(KEYWORD) + 1
         IN SubSeq(s, j, RunEnd(s, j))
    ELSE s

\* self.keyword.search(text): group(1) of the leftmost match, <<>> for None
\* (group(1) is never empty: the group is [ \w]+)
KeywordSearch(s) ==
  IF \E i \in 1..Len(s) : MatchAt(s, i)
    THEN LET i == CHOOSE x \in 1..Len(s) :
                    MatchAt(s, x) /\ \A y \in 1..(x - 1) : ~MatchAt(s, y)
             j == i + Len(KEYWORD) + 1
         IN SubSeq(s, j, RunEnd(s, j))
    ELSE <<>>

\* str.split('\n')
RECURSIVE SplitLines(_)
SplitLines(s) ==
  IF \E i \in 1..Len(s) : s[i] = NL
    THEN LET i == CHOOSE x \in 1..Len(s) :
                    s[x] = NL /\ \A y \in 1..(x - 1) : s[y] # NL
         IN <<SubSeq(s, 1, i - 1)>> \o SplitLines(SubSeq(s, i + 1, Len(s)))
    ELSE <<s>>

\* -------------------------------------------------------------------- deque
\* The mutants of the deque and of the other operations are defined right
\* before the operation they replace.

\* append that drops the newest entry when full
DequeAppendDropNewest(d, x, maxlen) ==
  IF Len(d) = maxlen THEN d ELSE Append(d, x)

\* append that does nothing
DequeAppendNoOp(d, x, maxlen) == d

\* collections.deque.append on a deque of maxlen > 0
DequeAppend(d, x, maxlen) ==
  IF Len(d) = maxlen THEN Append(Tail(d), x) ELSE Append(d, x)

\* collections.deque(iterable, maxlen): the items appended one by one
RECURSIVE DequeFrom(_, _, _)
DequeFrom(items, d, maxlen) ==
  IF items = <<>> THEN d
  ELSE DequeFrom(Tail(items), DequeAppend(d, Head(items), maxlen), maxlen)

\* ---------------------------------------------------------------- comments
\* The comments the remote service can list.  Each has a fixed author and
\* body: a asks for two words in the middle of a sentence, b shouts, c has
\* the keyword glued to the end of a token, d is the bot's own comment and
\* e lacks the keyword.
BOT_ACCOUNT == "FiniteDinoBot"
CommentIds == {<<"a">>, <<"b">>, <<"c">>, <<"d">>, <<"e">>}

Author(id) == IF id = <<"d">> THEN BOT_ACCOUNT ELSE "alice"

Body(id) ==
  CASE id = <<"a">> ->
         <<"p", "l", "e", "a", "s", "e", " ", "!", "d", "e", "f", "i", "n",
           "e", " ", "s", "e", "r", "e", "n", "d", "i", "p", "i", "t", "y",
           " ", "n", "o", "w">>
    [] id = <<"b">> -> <<"!", "D", "E", "F", "I", "N", "E", " ", "W">>
    [] id = <<"c">> -> <<"x", "!", "d", "e", "f", "i", "n", "e", " ", "w">>
    [] id = <<"d">> -> <<"!", "d", "e", "f", "i", "n", "e", " ", "w">>
    [] OTHER -> <<"d", "e", "f", "i", "n", "e", " ", "w">>

Queries == {KeywordSearch(Lower(Body(id))) : id \in CommentIds} \ {<<>>}

NoItem == [id |-> <<>>, query |-> <<>>]
NoComment == [id |-> <<>>, cached |-> FALSE, yielded |-> FALSE]
NoLastItem == [id |-> <<>>, data |-> "pending", outcome |-> "pending"]

\* ------------------------------------------------------------- definitions
\* Markup is a sequence of tokens: a tag, a bracket or a piece of text each.
DEFINE_URL == "https://en.wiktionary.org/wiki/"
BoldTags == {"<b>", "</b>", "<strong>", "</strong>"}
ItalicTags == {"<i>", "</i>", "<em>", "</em>"}
Tags ==
  BoldTags \cup ItalicTags \cup
    {"<ol>", "</ol>", "<ul>", "</ul>", "<li>", "</li>", "<dd>", "</dd>",
     "<p>", "</p>"}

\* pattern.sub(repl, s) for a pattern that matches one token of the set
SubTokens(s, set, repl) == [i \in 1..Len(s) |-> IF s[i] \in set THEN repl ELSE s[i]]

\* pattern.sub('', s) for a non-greedy pattern open[\s\S]*?close
RECURSIVE RemoveSpans(_, _, _)
RemoveSpans(s, open, close) ==
  IF s = <<>> THEN <<>>
  ELSE IF Head(s) \in open /\ \E j \in 2..Len(s) : s[j] \in close
    THEN LET j == CHOOSE x \in 2..Len(s) :
                    s[x] \in close /\ \A y \in 2..(x - 1) : s[y] \notin close
         IN RemoveSpans(SubSeq(s, j + 1, Len(s)), open, close)
    ELSE <<Head(s)>> \o RemoveSpans(Tail(s), open, close)

\* HTML_TAGS.sub('', s)
RemoveTags(s) == SelectSeq(s, LAMBDA t : t \notin Tags)

\* query.replace(' ', '_')
Underscored(query) == [i \in 1..Len(query) |-> IF query[i] = " " THEN "_" ELSE query[i]]

NoData == [definition |-> <<>>, query_url |-> <<>>, word_class |-> <<>>, word |-> <<>>]

\* the dict retrieve_definition builds from a page that has a definition
PageData(query) ==
  [definition |-> <<"<ol>", "<li>", "<i>", "archaic", "</i>", "meaning", "[",
                    "1", "]", "<ul>", "<li>", "example", "</li>", "</ul>",
                    "</li>", "</ol>">>,
   query_url |-> <<DEFINE_URL>> \o Underscored(query),
   word_class |-> <<"Noun">>,
   word |-> <<"<p>", "<strong>">> \o query \o <<"</strong>", "</p>">>]

\* the three fields as format_definition_reply leaves them in data
FormattedFields(data) ==
  LET emph(s) == SubTokens(SubTokens(s, BoldTags, "**"), ItalicTags, "_")
      items(s) == SubTokens(SubTokens(s, {"<li>"}, "1. "), {"</li>"}, NL)
      terms(s) == SubTokens(SubTokens(s, {"<dd>"}, "  "), {"</dd>"}, NL)
      definition ==
        RemoveSpans(terms(items(RemoveSpans(emph(data.definition),
                                            {"<ul>"}, {"</ul>"}))),
                    {"&#91;", "["}, {"&#93;", "]"})
  IN [definition |-> RemoveTags(definition),
      query_url |-> data.query_url,
      word_class |-> RemoveTags(emph(data.word_class)),
      word |-> RemoveTags(emph(data.word))]

\* format_definition_reply(data): the reply it returns and the dict data as
\* it leaves it (the fields are assigned in place)
format_definition_reply(data) ==
  LET f == FormattedFields(data) IN
    [data |-> f,
     reply |-> <<"#### ">> \o f.word \o <<NL, "*">> \o f.word_class
                 \o <<"*", NL, NL>> \o f.definition
                 \o <<NL, "[^*Wiktionary*](">> \o f.query_url \o <<")", "FOOTER">>]

\* ------------------------------------------------------------- cache store
\* fs: "nodir" (neither cache/ nor the file), "nofile" (cache/ without the
\* file), "file" (the file, holding fileData), "denied" (an unreadable file)
\* The stores a run can start from: none, an unreadable one, the empty file
\* write_cache leaves for an empty cache, a file naming a comment of the bot,
\* and a file of three ids.
InitialFiles ==
  { [fs |-> "nodir", data |-> <<>>],
    [fs |-> "denied", data |-> <<>>],
    [fs |-> "file", data |-> <<>>],
    [fs |-> "file", data |-> <<"d">>],
    [fs |-> "file", data |-> <<"c", NL, "a", NL, "b">>] }

\* read_cache(file): the deque it returns, the store it leaves, and whether
\* an exception leaves it.  mkdirOk: whether mkdir of the directory succeeds.
read_cache(f, data, mkdirOk) ==
  CASE f = "file" ->
         [mem_cache |-> DequeFrom(SplitLines(data), <<>>, CACHE_SIZE),
          fs |-> f, raised |-> FALSE]
    [] f \in {"nodir", "nofile"} ->
         [mem_cache |-> <<>>,
          fs |-> IF f = "nodir" /\ mkdirOk THEN "nofile" ELSE f,
          raised |-> FALSE]
    [] OTHER -> [mem_cache |-> <<>>, fs |-> f, raised |-> TRUE]

\* the for loop of write_cache: '\n' + entry for each entry
RECURSIVE WriteRest(_)
WriteRest(entries) ==
  IF entries = <<>> THEN <<>>
  ELSE <<NL>> \o Head(entries) \o WriteRest(Tail(entries))

\* every entry written followed by a line terminator
WriteEntriesTrailingNewline(mem_cache) ==
  IF mem_cache = <<>>
    THEN [data |-> <<>>, mem_cache |-> mem_cache, saved |-> FALSE]
    ELSE [data |-> Head(mem_cache) \o WriteRest(Tail(mem_cache)) \o <<NL>>,
          mem_cache |-> Tail(mem_cache), saved |-> TRUE]

\* the body of write_cache once the file is open: what is written, and the
\* deque after popleft
WriteEntries(mem_cache) ==
  IF mem_cache = <<>>
    THEN [data |-> <<>>, mem_cache |-> mem_cache, saved |-> FALSE]
    ELSE [data |-> Head(mem_cache) \o WriteRest(Tail(mem_cache)),
          mem_cache |-> Tail(mem_cache), saved |-> TRUE]

\* -------------------------------------------------------------------- state
VARIABLES
  pc,                  \* where the process is
  processed_comments,  \* self.processed_comments
  reddit,              \* self.reddit: "None" or "client"
  username,            \* self.username: the site name, then the Redditor
  max_attempts,        \* authenticate's argument
  attempt,             \* authenticate's counter
  fetched,             \* comments the listing has delivered in this poll
  current,             \* the item retrieve_comments yielded last
  lastExamined,        \* the generator's loop variable `comment`, with
                       \* whether its id was cached and whether it was yielded
  lastItem,            \* the item yielded last: its id, the `data` main got
                       \* for it and what became of it
  memo,                \* lru_cache of retrieve_definition: which queries
                       \* it holds a result for
  memoData,            \* the dict lru_cache holds for a query that was found
  fs, fileData,        \* the cache store
  exit_code,           \* -1 while the process runs
  \* history
  submitted,           \* ids submit_comment was called for, this run
  replied,             \* ids target.reply was called for, this run
  admitted,            \* the last CACHE_SIZE + 1 entries loaded or appended
  lastError,           \* the APIException main caught last: its error type
  errDuring,           \* "listing" or "submission"
  errCache,            \* processed_comments when that exception was raised
  crashCause,          \* the call whose exception ended the process
  interrupts,          \* SIGINTs that have arrived
  intAt,               \* pc when the first SIGINT arrived
  firstCache,          \* processed_comments when the first SIGINT arrived
  intCache,            \* processed_comments when the last SIGINT arrived
  intSubmitted,        \* submitted when the first SIGINT arrived
  wcArg,               \* mem_cache as the last write_cache call received it
  wcState              \* of the last write_cache call: "none" (no call),
                       \* "writing", "failed" (IOError) or "written"

vars == <<pc, processed_comments, reddit, username, max_attempts, attempt,
          fetched, current, lastExamined, lastItem, memo, memoData, fs,
          fileData, exit_code,
          submitted, replied, admitted, lastError, errDuring, errCache,
          crashCause, interrupts, intAt, firstCache, intCache, intSubmitted,
          wcArg, wcState>>

store == <<fs, fileData>>
botVars == <<reddit, username>>
authVars == <<max_attempts, attempt>>
errVars == <<lastError, errDuring, errCache>>
intVars == <<interrupts, intAt, firstCache, intCache, intSubmitted>>
exitVars == <<intVars, wcArg, wcState>>
itemVars == <<current, lastExamined, lastItem>>
memoVars == <<memo, memoData>>
subVars == <<submitted, replied>>

\* the last n entries of s
LastEntries(s, n) == IF Len(s) <= n THEN s ELSE SubSeq(s, Len(s) - n + 1, Len(s))

Init ==
  /\ pc = "start"
  /\ processed_comments = <<>>
  /\ reddit = "None"
  /\ username = [kind |-> "str", name |-> SITE_NAME]
  /\ max_attempts \in MaxAttemptsArgs
  /\ attempt = 0
  /\ fetched = 0
  /\ current = NoItem
  /\ lastExamined = NoComment
  /\ lastItem = NoLastItem
  /\ memo = [q \in Queries |-> "miss"]
  /\ memoData = [q \in Queries |-> NoData]
  /\ \E f \in InitialFiles : fs = f.fs /\ fileData = f.data
  /\ exit_code = -1
  /\ submitted = {}
  /\ replied = {}
  /\ admitted = <<>>
  /\ lastError = "none"
  /\ errDuring = "none"
  /\ errCache = <<>>
  /\ crashCause = "none"
  /\ interrupts = 0
  /\ intAt = "none"
  /\ firstCache = <<>>
  /\ intCache = <<>>
  /\ intSubmitted = {}
  /\ wcArg = <<>>
  /\ wcState = "none"

\* an exception nothing catches: traceback, non-zero exit status
Crash(cause) ==
  /\ pc' = "crashed"
  /\ exit_code' = 1
  /\ crashCause' = cause

\* ------------------------------------------------------------- construction
\* RedditBot.__init__: read_cache, then the SIGINT handler is installed
Construct ==
  /\ pc = "start"
  /\ \E mkdirOk \in BOOLEAN :
       LET r == read_cache(fs, fileData, mkdirOk) IN
         IF r.raised
           THEN /\ Crash("read_cache")
                /\ UNCHANGED <<processed_comments, admitted, fs>>
           ELSE /\ processed_comments' = r.mem_cache
                /\ admitted' = IF fs = "file"
                                 THEN LastEntries(SplitLines(fileData), CACHE_SIZE + 1)
                                 ELSE <<>>
                /\ fs' = r.fs
                /\ pc' = "authenticate"
                /\ UNCHANGED <<exit_code, crashCause>>
  /\ UNCHANGED <<botVars, authVars, fetched, itemVars, memoVars, fileData,
                 subVars, errVars, exitVars>>

\* SIGINT before signal.signal has run: Python's default handler raises
\* KeyboardInterrupt
InterruptBeforeHandler ==
  /\ pc = "start"
  /\ Crash("KeyboardInterrupt")
  /\ UNCHANGED <<processed_comments, botVars, authVars, fetched, itemVars,
                 memoVars, store, subVars, admitted, errVars, exitVars>>

\* ------------------------------------------------------------ authenticate
\* one pass of the while loop: the test, praw.Reddit and user.me()
AuthAttempt ==
  /\ pc = "authenticate"
  /\ IF attempt = max_attempts
       THEN /\ Crash("auth_exhausted")
            /\ UNCHANGED <<botVars, authVars>>
       ELSE \E outcome \in {"ok", "APIException", "other"} :
              CASE outcome = "ok" ->
                     /\ reddit' = "client"
                     /\ username' = [kind |-> "Redditor", name |-> BOT_ACCOUNT]
                     /\ pc' = "retrieve"
                     \* authenticate returns: its locals are gone
                     /\ max_attempts' = DEFAULT_MAX_ATTEMPTS
                     /\ attempt' = 0
                     /\ UNCHANGED <<exit_code, crashCause>>
                [] outcome = "APIException" ->
                     /\ reddit' = "client"
                     /\ pc' = "auth_sleep"
                     /\ UNCHANGED <<username, authVars, exit_code, crashCause>>
                [] OTHER ->
                     /\ Crash("authenticate")
                     /\ UNCHANGED <<botVars, authVars>>
  /\ UNCHANGED <<processed_comments, fetched, itemVars, memoVars, store,
                 subVars, admitted, errVars, exitVars>>

\* sleep(seconds_between_attempts); attempt += 1
AuthSleep ==
  /\ pc = "auth_sleep"
  /\ attempt' = IF attempt < AttemptCap THEN attempt + 1 ELSE attempt
  /\ pc' = "authenticate"
  /\ UNCHANGED <<processed_comments, botVars, max_attempts, fetched, itemVars,
                 memoVars, store, exit_code, subVars, admitted, errVars,
                 crashCause, exitVars>>

\* --------------------------------------------------------------- main loop
\* the handlers of main's try: APIException is caught (BACKOFF), anything
\* else leaves main
MainExceptCrashOnRateLimit(error) ==
  IF error = "OTHER" THEN "backoff" ELSE "crashed"

MainExcept(error) ==
  IF error \in {"RATELIMIT", "OTHER"} THEN "backoff" ELSE "crashed"

\* an exception of kind error reaches main's try block from the call `during`
Raise(error, during) ==
  /\ pc' = MainExcept(error)
  /\ lastError' = error
  /\ errDuring' = during
  /\ errCache' = processed_comments
  /\ IF MainExcept(error) = "backoff"
       THEN UNCHANGED <<exit_code, crashCause>>
       ELSE /\ exit_code' = 1
            /\ crashCause' = during
  \* the generator is dropped with its frame
  /\ current' = NoItem
  /\ lastExamined' = NoComment

\* the top of `while True`: retrieve_comments() makes the generator and the
\* for loop asks it for its first item
StartPoll ==
  /\ pc = "retrieve"
  /\ pc' = "iterate"
  /\ fetched' = 0
  /\ lastError' = "none"
  /\ errDuring' = "none"
  /\ errCache' = <<>>
  /\ UNCHANGED <<processed_comments, botVars, authVars, itemVars, memoVars, store,
                 exit_code, subVars, admitted, crashCause, exitVars>>

\* the filter without the membership test
ConsiderIgnoringCache(id, cache, user) == Author(id) # user.name

\* the filter without the author test
ConsiderIgnoringAuthor(id, cache, user) == id \notin Range(cache)

\* retrieve_comments' filter: comment.author != self.username and comment
\* not in self.processed_comments (praw compares a comment with a str by id,
\* and a Redditor by name)
Consider(id, cache, user) ==
  /\ Author(id) # user.name
  /\ id \notin Range(cache)

\* the listing delivers comment id and retrieve_comments examines it
Examine(id) ==
  /\ pc = "iterate"
  /\ fetched < RETRIEVAL_LIMIT
  /\ fetched' = fetched + 1
  /\ LET query == KeywordSearch(Lower(Body(id))) IN
       IF Consider(id, processed_comments, username) /\ query # <<>>
         THEN /\ processed_comments' = DequeAppend(processed_comments, id, CACHE_SIZE)
              /\ admitted' = LastEntries(Append(admitted, id), CACHE_SIZE + 1)
              /\ current' = [id |-> id, query |-> query]
              /\ lastExamined' = [id |-> id,
                                  cached |-> id \in Range(processed_comments),
                                  yielded |-> TRUE]
              /\ lastItem' = [id |-> id, data |-> "pending", outcome |-> "pending"]
              /\ pc' = "lookup"
         ELSE /\ lastExamined' = [id |-> id,
                                  cached |-> id \in Range(processed_comments),
                                  yielded |-> FALSE]
              /\ UNCHANGED <<processed_comments, admitted, current, lastItem, pc>>
  /\ UNCHANGED <<botVars, authVars, memoVars, store, exit_code, subVars,
                 errVars, crashCause, exitVars>>

\* the listing is exhausted: the generator returns, the for loop ends
EndListing ==
  /\ pc = "iterate"
  /\ pc' = "idle"
  /\ lastExamined' = NoComment
  /\ UNCHANGED <<processed_comments, botVars, authVars, fetched, current,
                 lastItem,
                 memoVars, store, exit_code, subVars, admitted, errVars,
                 crashCause, exitVars>>

\* the request for the next page of the listing fails: APIException with an
\* error type, or an exception of the network layer
ListingFails ==
  /\ pc = "iterate"
  /\ fetched < RETRIEVAL_LIMIT
  /\ \E error \in {"RATELIMIT", "OTHER", "network"} : Raise(error, "listing")
  /\ UNCHANGED <<lastItem, processed_comments, botVars, authVars, fetched, memoVars, store,
                 subVars, admitted, exitVars>>

\* what retrieve_definition returns for an answer of the lookup service
Definition(answer) == IF answer = "found" THEN "found" ELSE "none"

\* `if data:` with the truth value of everything
TruthyAlways(data) == TRUE

\* main's `if data:` (None is false, a dict with keys is true)
Truthy(data) == data = "found"

\* what the for loop of main does with the data of the item: on to
\* format_definition_reply and submit_comment, or next item
AfterLookup(data) ==
  /\ pc' = IF Truthy(data) THEN "submit" ELSE "iterate"
  /\ current' = IF Truthy(data) THEN current ELSE NoItem
  /\ lastItem' = [lastItem EXCEPT !.data = data,
                                  !.outcome = IF Truthy(data) THEN "pending"
                                              ELSE "skipped"]
  /\ UNCHANGED <<lastExamined, exit_code, crashCause, errVars>>

\* retrieve_definition(query), memoized by lru_cache (maxsize 32, more than
\* the queries here): HTTPError and a page without definition give None,
\* URLError is not caught
RetrieveDefinition ==
  /\ pc = "lookup"
  /\ IF memo[current.query] # "miss"
       THEN /\ AfterLookup(memo[current.query])
            /\ UNCHANGED memoVars
       ELSE \E answer \in {"found", "HTTPError", "no_definition", "URLError"} :
              IF answer = "URLError"
                THEN /\ Raise("network", "lookup")
                     /\ lastItem' = [lastItem EXCEPT !.outcome = "failed"]
                     /\ UNCHANGED memoVars
                ELSE /\ memo' = [memo EXCEPT ![current.query] = Definition(answer)]
                     /\ memoData' =
                          [memoData EXCEPT ![current.query] =
                             IF Definition(answer) = "found"
                               THEN PageData(current.query) ELSE NoData]
                     /\ AfterLookup(Definition(answer))
  /\ UNCHANGED <<processed_comments, botVars, authVars, fetched, store,
                 subVars, admitted, exitVars>>

\* format_definition_reply(data), then submit_comment(target, reply); data
\* is the dict lru_cache holds for the query
SubmitComment ==
  /\ pc = "submit"
  /\ memoData' = [memoData EXCEPT ![current.query] =
                    format_definition_reply(memoData[current.query]).data]
  /\ submitted' = submitted \cup {current.id}
  /\ IF Author(current.id) # username.name
       THEN /\ replied' = replied \cup {current.id}
            /\ \E result \in {"ok", "RATELIMIT", "OTHER", "network"} :
                 IF result = "ok"
                   THEN /\ pc' = "iterate"
                        /\ current' = NoItem
                        /\ lastItem' = [lastItem EXCEPT !.outcome = "replied"]
                        /\ UNCHANGED <<lastExamined, exit_code, crashCause, errVars>>
                   ELSE /\ Raise(result, "submission")
                        /\ lastItem' = [lastItem EXCEPT !.outcome = "failed"]
       ELSE /\ pc' = "iterate"
            /\ current' = NoItem
            /\ lastItem' = [lastItem EXCEPT !.outcome = "declined"]
            /\ UNCHANGED <<replied, lastExamined, exit_code, crashCause, errVars>>
  /\ UNCHANGED <<processed_comments, botVars, authVars, fetched, memo, store,
                 admitted, exitVars>>

\* sleep(120) in the except clause
Backoff ==
  /\ pc = "backoff"
  /\ pc' = "idle"
  /\ UNCHANGED <<processed_comments, botVars, authVars, fetched, itemVars,
                 memoVars, store, exit_code, subVars, admitted, errVars,
                 crashCause, exitVars>>

\* sleep(1) at the end of the loop body
Idle ==
  /\ pc = "idle"
  /\ pc' = "retrieve"
  /\ UNCHANGED <<processed_comments, botVars, authVars, fetched, itemVars,
                 memoVars, store, exit_code, subVars, admitted, errVars,
                 crashCause, exitVars>>

\* ----------------------------------------------------------------- shutdown
Interruptible ==
  {"authenticate", "auth_sleep", "retrieve", "iterate", "lookup", "submit",
   "backoff", "idle"}

\* SIGINT arrives: Python runs bot_exit in the main thread
Interrupt ==
  /\ pc \in Interruptible
  /\ pc' = "bot_exit"
  /\ interrupts' = 1
  /\ intAt' = pc
  /\ firstCache' = processed_comments
  /\ intCache' = processed_comments
  /\ intSubmitted' = submitted
  /\ UNCHANGED <<processed_comments, botVars, authVars, fetched, itemVars,
                 memoVars, store, exit_code, subVars, admitted, errVars,
                 crashCause, wcArg, wcState>>

\* where bot_exit can be when a further SIGINT arrives: before open(), in
\* the with block before popleft, after the with block before sys.exit()
HandlerPcs == {"bot_exit", "wc_write", "sys_exit"}

\* SIGINT arrives while bot_exit runs: Python runs bot_exit again on top of
\* the interrupted call, which never resumes (the new call ends in
\* sys.exit(); SystemExit then unwinds the interrupted call, whose file, if
\* open, is closed with nothing buffered)
InterruptAgain ==
  /\ pc \in HandlerPcs
  /\ interrupts < MaxInterrupts
  /\ interrupts' = interrupts + 1
  /\ pc' = "bot_exit"
  /\ intCache' = processed_comments
  /\ UNCHANGED <<processed_comments, botVars, authVars, fetched, itemVars,
                 memoVars, store, exit_code, subVars, admitted, errVars,
                 crashCause, intAt, firstCache, intSubmitted, wcArg, wcState>>

\* bot_exit calls write_cache(CACHE_FILE, self.processed_comments);
\* open(file, 'w') truncates the file, or raises IOError (always when the
\* directory is missing)
WriteCacheOpen ==
  /\ pc = "bot_exit"
  /\ wcArg' = processed_comments
  /\ \E opened \in BOOLEAN :
       IF opened /\ fs \in {"nofile", "file"}
         THEN /\ fs' = "file"
              /\ fileData' = <<>>
              /\ pc' = "wc_write"
              /\ wcState' = "writing"
         ELSE /\ wcState' = "failed"
              /\ pc' = "sys_exit"
              /\ UNCHANGED store
  /\ UNCHANGED <<processed_comments, botVars, authVars, fetched, itemVars,
                 memoVars, exit_code, subVars, admitted, errVars, crashCause,
                 intVars>>

\* popleft and the writes, file closed
WriteCacheEntries ==
  /\ pc = "wc_write"
  /\ LET w == WriteEntries(processed_comments) IN
       /\ fileData' = w.data
       /\ processed_comments' = w.mem_cache
  /\ wcState' = "written"
  /\ pc' = "sys_exit"
  /\ UNCHANGED <<botVars, authVars, fetched, itemVars, memoVars, fs, exit_code,
                 subVars, admitted, errVars, crashCause, intVars, wcArg>>

\* exit with a non-zero status
SysExitNonZero ==
  /\ pc = "sys_exit"
  /\ pc' = "exited"
  /\ exit_code' = 1
  /\ UNCHANGED <<processed_comments, botVars, authVars, fetched, itemVars,
                 memoVars, store, subVars, admitted, errVars, crashCause,
                 exitVars>>

\* sys.exit()
SysExit ==
  /\ pc = "sys_exit"
  /\ pc' = "exited"
  /\ exit_code' = 0
  /\ UNCHANGED <<processed_comments, botVars, authVars, fetched, itemVars,
                 memoVars, store, subVars, admitted, errVars, crashCause,
                 exitVars>>

Next ==
  \/ Construct
  \/ InterruptBeforeHandler
  \/ AuthAttempt
  \/ AuthSleep
  \/ StartPoll
  \/ \E id \in CommentIds : Examine(id)
  \/ EndListing
  \/ ListingFails
  \/ RetrieveDefinition
  \/ SubmitComment
  \/ Backoff
  \/ Idle
  \/ Interrupt
  \/ InterruptAgain
  \/ WriteCacheOpen
  \/ WriteCacheEntries
  \/ SysExit

Spec == Init /\ [][Next]_vars

\* the process keeps running: the handler's steps are taken once enabled
FairSpec == Spec /\ WF_vars(WriteCacheOpen \/ WriteCacheEntries \/ SysExit)

\* ------------------------------------------------------------------- claims
Distinct(s) == \A i, j \in 1..Len(s) : s[i] = s[j] => i = j

\* C1: within one process run submit_comment is called at most once per
\* comment id: it is never entered for an id it was already called for.
C1_AtMostOneSubmitPerComment ==
  pc = "submit" => current.id \notin submitted

\* C2: the cache never holds more than CACHE_SIZE entries, they are distinct,
\* and as long as no write_cache call has written they are exactly the last
\* CACHE_SIZE entries loaded or appended, in that order (the oldest evicted).
C2_CacheIsLastAdmitted ==
  /\ Len(processed_comments) <= CACHE_SIZE
  /\ Distinct(processed_comments)
  /\ (wcState # "written" /\ interrupts <= 1) =>
       processed_comments = LastEntries(admitted, CACHE_SIZE)

\* C2 witness: an append on a full cache has evicted the oldest entry.
C2_Witness ==
  /\ pc = "lookup"
  /\ Len(admitted) = CACHE_SIZE + 1
  /\ processed_comments = Tail(admitted)
  /\ Head(admitted) \notin Range(processed_comments)

\* C3: write_cache followed by read_cache yields the cache as it was before
\* the write, with no extra empty-string entry.
C3_RoundTrip ==
  wcState = "written" => read_cache(fs, fileData, TRUE).mem_cache = wcArg

\* C4: once authenticated, no failure of a remote call of the main loop
\* (listing, lookup, submission) terminates the process.
C4_MainLoopNeverTerminates ==
  pc = "crashed" => crashCause \notin {"listing", "lookup", "submission"}

\* C5: BACKOFF is entered only on a rate-limit signal; an item that fails
\* with another remote error does not stop the poll cycle.
C5_BackoffOnlyOnRateLimit ==
  /\ pc = "backoff" => lastError = "RATELIMIT"
  /\ (lastError \notin {"none", "RATELIMIT"} /\ errDuring \in {"lookup", "submission"})
       => pc \notin {"backoff", "idle", "retrieve", "crashed"}

\* C6: after a rate-limit error during listing or submission the process is
\* in BACKOFF, in the idle pause or at the start of a new poll cycle (or in
\* the SIGINT handler), never terminated by the error, and until polling has
\* resumed the cache is the cache of the moment of the error.
C6_RateLimitBackoffKeepsCache ==
  lastError = "RATELIMIT" =>
    /\ errDuring \in {"listing", "submission"}
    /\ pc \in {"backoff", "idle", "retrieve"} \cup HandlerPcs \cup {"exited"}
    /\ pc \in {"backoff", "idle", "retrieve"} => processed_comments = errCache

\* C6 witness: polling resumes after a rate-limit error of a submission, the
\* cache still holding the ids it held.
C6_Witness ==
  /\ pc = "retrieve"
  /\ lastError = "RATELIMIT"
  /\ errDuring = "submission"
  /\ Len(errCache) = CACHE_SIZE
  /\ processed_comments = errCache

\* C7: a comment whose id is in the cache when retrieve_comments examines it
\* is not yielded.
C7_CachedNeverYielded ==
  lastExamined.cached => ~lastExamined.yielded

\* C7 witness: in a later poll a comment already replied to, with the
\* keyword in its body and another author than the bot, is examined again
\* and skipped.
C7_Witness ==
  /\ pc = "iterate"
  /\ lastExamined.cached
  /\ ~lastExamined.yielded
  /\ lastExamined.id \in replied
  /\ KeywordSearch(Lower(Body(lastExamined.id))) # <<>>
  /\ Author(lastExamined.id) # username.name

\* C8: a comment of the bot's own account is never yielded and never
\* replied to.
C8_OwnCommentsNeverYielded ==
  /\ (lastExamined.id # <<>> /\ Author(lastExamined.id) = username.name)
       => ~lastExamined.yielded
  /\ current.id # <<>> => Author(current.id) # username.name
  /\ \A id \in replied : Author(id) # username.name

\* C8 witness: a comment of the bot with the keyword in its body, its id not
\* in the cache, has been examined and skipped.
C8_Witness ==
  /\ pc = "iterate"
  /\ username.kind = "Redditor"
  /\ lastExamined.id # <<>>
  /\ Author(lastExamined.id) = username.name
  /\ KeywordSearch(Lower(Body(lastExamined.id))) # <<>>
  /\ ~lastExamined.cached
  /\ ~lastExamined.yielded

\* C9: once SIGINT has arrived no further submit_comment call is made,
\* write_cache is called with the cache of that moment, and the process
\* terminates with exit code 0.
C9_InterruptFlushesAndExits ==
  /\ [](pc \in HandlerPcs \cup {"exited"} =>
          /\ submitted = intSubmitted
          /\ replied \subseteq intSubmitted)
  /\ [](pc \in {"wc_write", "sys_exit", "exited"} => wcArg = intCache)
  /\ [](pc = "exited" => exit_code = 0 /\ wcState \in {"written", "failed"})
  /\ [](pc \in HandlerPcs => <>(pc = "exited" /\ exit_code = 0))

\* C9 witness: the process has exited with code 0 after a SIGINT that
\* arrived while a reply was being submitted, the cache written.
C9_Witness ==
  /\ pc = "exited"
  /\ exit_code = 0
  /\ intAt = "submit"
  /\ intCache # <<>>
  /\ wcArg = intCache
  /\ wcState = "written"

\* C10: after write_cache the store holds exactly the ids the cache held at
\* the call, oldest first, separated by single newlines, with no line
\* terminator after the last one.
C10_FileIsJoinedCache ==
  wcState = "written" =>
    /\ wcArg = <<>> => fileData = <<>>
    /\ wcArg # <<>> =>
         /\ SplitLines(fileData) = wcArg
         /\ Cardinality({i \in 1..Len(fileData) : fileData[i] = NL}) = Len(wcArg) - 1
    /\ fileData # <<>> => fileData[Len(fileData)] # NL

\* C10 witness: ids a, b, c were admitted, the cache held b and c at the
\* call and the file holds "b\nc".
C10_Witness ==
  /\ wcState = "written"
  /\ <<"a">> \in Range(admitted)
  /\ <<"a">> \notin Range(wcArg)
  /\ wcArg = <<(<<"b">>), (<<"c">>)>>
  /\ fileData = <<"b", NL, "c">>

\* C11: authenticate retries after every failed attempt, gives up only when
\* max_attempts >= 1 attempts have failed, never with the unlimited default,
\* and returns only with the client set and the username of the account.
C11_AuthenticateRetriesEveryFailure ==
  /\ crashCause # "authenticate"
  /\ crashCause = "auth_exhausted" => (max_attempts >= 1 /\ attempt = max_attempts)
  /\ pc \in {"retrieve", "iterate", "lookup", "submit", "backoff", "idle"} =>
       (reddit = "client" /\ username = [kind |-> "Redditor", name |-> BOT_ACCOUNT])

\* C13: read_cache never ends the process: an I/O error other than a missing
\* file gives the empty cache.
C13_ReadCacheNeverFatal ==
  crashCause # "read_cache"

\* the request of the example body, as a single word and as the whole run
Serendipity == <<"s", "e", "r", "e", "n", "d", "i", "p", "i", "t", "y">>
SerendipityNow == Serendipity \o <<" ", "n", "o", "w">>

\* C14 as stated: for the body "please !define serendipity now" the query
\* yielded is the single word "serendipity".
C14_QueryIsOneWord ==
  current.id = <<"a">> => current.query = Serendipity

\* C14: for the body "please !define serendipity now" the query yielded is
\* the whole run of word characters and spaces after the keyword,
\* "serendipity now".
C14_QueryIsWholeRun ==
  current.id = <<"a">> => current.query = SerendipityNow

C14_Witness ==
  /\ pc = "lookup"
  /\ current.id = <<"a">>
  /\ Body(current.id)[7] = " "
  /\ Len(current.query) = 15

\* the positions of s where the keyword starts
KeywordAt(s) ==
  {i \in 1..Len(s) : /\ i + Len(KEYWORD) - 1 <= Len(s)
                      /\ SubSeq(s, i, i + Len(KEYWORD) - 1) = Lower(KEYWORD)}

\* the keyword occurs in s, and only right after a character other than space
OnlyGlued(s) ==
  /\ KeywordAt(s) # {}
  /\ \A i \in KeywordAt(s) : i > 1 /\ s[i - 1] # " "

\* C15 as stated: a comment whose body has the keyword only as the tail of a
\* longer token is never yielded.
C15_GluedKeywordNotYielded ==
  (lastExamined.id # <<>> /\ OnlyGlued(Lower(Body(lastExamined.id))))
    => ~lastExamined.yielded

\* C15: no token boundary is needed before the keyword: a comment of another
\* author, not in the cache, whose body has the keyword only as the tail of a
\* longer token, followed by a space and a word character, is yielded, with
\* the run after the keyword as its query.
C15_GluedKeywordYielded ==
  LET body == Lower(Body(lastExamined.id)) IN
    (/\ lastExamined.id # <<>>
     /\ OnlyGlued(body)
     /\ \E i \in KeywordAt(body) :
          /\ i + Len(KEYWORD) + 1 <= Len(body)
          /\ body[i + Len(KEYWORD)] = " "
          /\ body[i + Len(KEYWORD) + 1] \in WordChars
     /\ ~lastExamined.cached
     /\ Author(lastExamined.id) # username.name)
      => /\ lastExamined.yielded
         /\ lastExamined.id \in Range(admitted)
         /\ pc = "lookup" => current = [id |-> lastExamined.id, query |-> <<"w">>]

C15_Witness ==
  /\ pc = "lookup"
  /\ lastExamined = [id |-> <<"c">>, cached |-> FALSE, yielded |-> TRUE]
  /\ Body(<<"c">>)[1] = "x"
  /\ current.query = <<"w">>

\* C16: every comment yielded has the keyword in its body, compared without
\* case; a comment without it is never yielded and its id never enters the
\* cache.
C16_OnlyKeywordCommentsYielded ==
  /\ lastExamined.yielded => KeywordAt(Lower(Body(lastExamined.id))) # {}
  /\ current.id # <<>> => KeywordAt(Lower(Body(current.id))) # {}
  /\ \A id \in CommentIds :
       KeywordAt(Lower(Body(id))) = {} =>
         /\ id \notin Range(processed_comments)
         /\ id \notin Range(admitted)
         /\ id \notin submitted

C16_Witness ==
  /\ pc = "iterate"
  /\ lastExamined = [id |-> <<"e">>, cached |-> FALSE, yielded |-> FALSE]
  /\ KeywordAt(Lower(Body(<<"e">>))) = {}
  /\ admitted # <<>>

\* C12: when the lookup for an item returns None, submit_comment is not
\* called for the item, no exception is raised and the loop goes on to the
\* next comment.
C12_NoneIsSkipped ==
  lastItem.data = "none" =>
    /\ lastItem.outcome = "skipped"
    /\ lastItem.id \notin submitted
    /\ current.id # lastItem.id
    /\ pc # "submit"
    /\ errDuring \notin {"lookup", "submission"}
    /\ crashCause \notin {"lookup", "submission"}

C12_Witness ==
  /\ pc = "iterate"
  /\ lastItem.data = "none"
  /\ memo[KeywordSearch(Lower(Body(lastItem.id)))] = "none"
  /\ lastExamined.id \notin {<<>>, lastItem.id}

\* C17: the id of an item is in the cache whenever its lookup or its reply
\* is about to run, and a comment whose lookup gave nothing or whose reply
\* failed is not yielded again while the cache holds its id.
C17_AdmittedBeforeProcessing ==
  /\ pc \in {"lookup", "submit"} =>
       /\ current.id = lastItem.id
       /\ current.id \in Range(processed_comments)
  /\ (/\ lastExamined.id = lastItem.id
      /\ lastItem.outcome \in {"skipped", "failed"}
      /\ lastExamined.cached)
       => ~lastExamined.yielded

C17_Witness ==
  /\ pc = "iterate"
  /\ errDuring = "none"
  /\ lastItem.outcome = "failed"
  /\ lastExamined = [id |-> lastItem.id, cached |-> TRUE, yielded |-> FALSE]

\* C18: format_definition_reply leaves the lookup result unchanged: what
\* retrieve_definition holds memoized for a query is the dict it built from
\* the page, before and after a reply is formatted.
C18_FormatLeavesResultUnchanged ==
  \A q \in Queries : memo[q] = "found" => memoData[q] = PageData(q)

\* C19: write_cache leaves the deque it is given as it was: once the call
\* is over, written or failed, the cache is what the call received.
C19_WriteCacheKeepsCache ==
  wcState \in {"written", "failed"} => processed_comments = wcArg

\* C20: when further SIGINTs arrive while bot_exit runs and the last
\* write_cache call writes, the file of the terminated process lists every
\* id the cache held at the first SIGINT, oldest first.
C20_RepeatedInterruptsKeepStore ==
  (pc = "exited" /\ interrupts >= 2 /\ wcState = "written") =>
    SelectSeq(SplitLines(fileData), LAMBDA l : l \in Range(firstCache))
      = firstCache

====
